---- MODULE Spec2Model ----
(***************************************************************************)
(* A model of find_unused_kern_syms.py: the pipeline                       *)
(*   get_obj_file_names -> read_symbols -> eliminate_used_symbols          *)
(*   -> print_result (find_source_file, read_kernel_symbols).              *)
(*                                                                         *)
(* A Python str is a sequence of one-character strings, so that slicing,   *)
(* str.split(), the substring test `in "TDB"` and the byte-wise order of   *)
(* list.sort() are computed as Python computes them.  A dict is a function *)
(* whose DOMAIN is its key set.  The output of an external tool (find, nm, *)
(* objdump) is a sequence of lines, each ending in "\n".                   *)
(*                                                                         *)
(* Two specifications share the actions.  Under Spec the environment       *)
(* chooses each tool's output when the tool is invoked.  Under SpecBuild   *)
(* the build directory (every object file's nm and objdump output, the     *)
(* kernel's nm output) is fixed beforehand and kept in the state, so that  *)
(* a run can be compared with other runs over the same inputs, and a tool  *)
(* may exit with a non-zero status.                                        *)
(***************************************************************************)
EXTENDS Integers, Sequences, FiniteSets, TLC

VARIABLES
    pc,             \* position of main(): the call that runs next
    args_k,         \* args.k
    sys_dir,        \* sys_dir (line 157)
    src_tree,       \* environment: paths of the files below sys_dir, relative to it
    build_fixed,    \* environment: TRUE when the build directory's contents are given
    obj_nm,         \* environment: object file -> output of `nm file` (when given)
    obj_reloc,      \* environment: object file -> output of `objdump -r file` (when given)
    kernel_nm,      \* environment: output of `nm netbsd` (when given)
    exit_codes,     \* environment: the exit statuses the tools may return
    file_names,     \* file_names of main() (line 162)
    idx,            \* index of the file the running for-loop reads next
    symbols,        \* the dict symbols of main() (line 163): name -> object file
    file_to_syms,   \* file_to_syms of print_result (line 117)
    kernel_symbols, \* kernel_symbols of print_result (line 126)
    examined,       \* file group -> the symbols[0] line 130 looked at
    report,         \* the lines printed on stdout
    U0,             \* history: the dict read_symbols returned
    R,              \* history: the relocation targets of the objdump outputs read
    nonzero_exit    \* history: some external tool exited with a non-zero status

vars == <<pc, args_k, sys_dir, src_tree, build_fixed, obj_nm, obj_reloc, kernel_nm,
          exit_codes, file_names, idx, symbols, file_to_syms, kernel_symbols,
          examined, report, U0, R, nonzero_exit>>

(***************************************************************************)
(* Bounds of the model.                                                    *)
(***************************************************************************)
MaxObjFiles == 2    \* object files `find . -name *.o` lists
MaxNmLines == 2     \* lines of one nm output
MaxRelocLines == 1  \* lines of one objdump -r output

(***************************************************************************)
(* String literals of the program.                                         *)
(***************************************************************************)
LibkernObj == <<"l", "i", "b", "/", "k", "e", "r", "n", "/", "l", "i", "b", "k", "e", "r", "n", ".", "o">>
LibKernPrefix == <<"l", "i", "b", "/", "k", "e", "r", "n", "/">>
OFFSET == <<"O", "F", "F", "S", "E", "T">>
TDB == <<"T", "D", "B">>
SlashSys == <<"/", "s", "y", "s">>
DefaultSrcDir == <<".", ".", "/", ".", ".", "/", ".", ".", "/", ".", ".", "/", ".", ".">>
Indent == <<" ", " ">>

(***************************************************************************)
(* The environment's strings: object files, tool output lines, source      *)
(* files and -s arguments.  The symbol names are f, fo and VALUE.          *)
(***************************************************************************)
ObjA == <<"a", ".", "o">>
ObjB == <<"b", ".", "o">>
ObjKA == <<"l", "i", "b", "/", "k", "e", "r", "n", "/", "a", ".", "o">>

\* nm lines: "00 T f", "00 D VALUE", "00 B fo", "   U f", "00 TD f" and an
\* archive member header "a.o:"
NmTf == <<"0", "0", " ", "T", " ", "f", "\n">>
NmDVALUE == <<"0", "0", " ", "D", " ", "V", "A", "L", "U", "E", "\n">>
NmBfo == <<"0", "0", " ", "B", " ", "f", "o", "\n">>
NmUf == <<" ", " ", " ", "U", " ", "f", "\n">>
NmTDf == <<"0", "0", " ", "T", "D", " ", "f", "\n">>
NmArchive == <<"a", ".", "o", ":", "\n">>

\* objdump -r lines: "00 R f", "04 R VALUE", "OFFSET TYPE VALUE",
\* "RELOCATION RECORDS FOR [.text]:" and an empty line
RelF == <<"0", "0", " ", "R", " ", "f", "\n">>
RelVALUE == <<"0", "4", " ", "R", " ", "V", "A", "L", "U", "E", "\n">>
RelHeader == <<"O", "F", "F", "S", "E", "T", " ", "T", "Y", "P", "E", " ", "V", "A", "L", "U", "E", "\n">>
RelSection == <<"R", "E", "L", "O", "C", "A", "T", "I", "O", "N", " ", "R", "E", "C", "O", "R", "D", "S", " ", "F", "O", "R", " ", "[", ".", "t", "e", "x", "t", "]", ":", "\n">>
RelBlank == <<"\n">>

\* source files below sys_dir: a.c, k/a.S, b.s, a.h
SrcAc == <<"a", ".", "c">>
SrcKAS == <<"k", "/", "a", ".", "S">>
SrcBs == <<"b", ".", "s">>
SrcAh == <<"a", ".", "h">>

\* a -s argument, "/u//s/" (the empty string stands for no -s)
DirAbs == <<"/", "u", "/", "/", "s", "/">>

ObjUniverse == {ObjA, ObjB, ObjKA, LibkernObj}
NmLines == {NmTf, NmDVALUE, NmBfo, NmArchive}
RelocLines == {RelF, RelVALUE, RelHeader, RelSection}
SrcTrees == {{SrcAh}, {SrcAc, SrcBs}, {SrcKAS, SrcAh}, {SrcAc, SrcKAS, SrcBs}}
SrcDirArgs == {<<>>, DirAbs}

(***************************************************************************)
(* Python's str and list operations.                                       *)
(***************************************************************************)
Min(a, b) == IF a < b THEN a ELSE b

\* the characters in use, in ASCII order
Ascii == <<"\n", " ", "+", ".", "/",
           "0", "1", "2", "3", "4", "5", "6", "7", "8", "9", ":",
           "A", "B", "C", "D", "E", "F", "G", "H", "I", "J", "K", "L", "M",
           "N", "O", "P", "Q", "R", "S", "T", "U", "V", "W", "X", "Y", "Z",
           "[", "]",
           "a", "b", "c", "d", "e", "f", "g", "h", "i", "j", "k", "l", "m",
           "n", "o", "p", "q", "r", "s", "t", "u", "v", "w", "x", "y", "z">>

Ord(c) == CHOOSE i \in 1..Len(Ascii) : Ascii[i] = c

Whitespace == {" ", "\n", "\t"}

\* s < t for two str: byte-wise lexicographic, a proper prefix first
RECURSIVE StrLess(_, _)
StrLess(s, t) ==
    IF t = <<>> THEN FALSE
    ELSE IF s = <<>> THEN TRUE
    ELSE IF Head(s) = Head(t) THEN StrLess(Tail(s), Tail(t))
    ELSE Ord(Head(s)) < Ord(Head(t))

\* a variant of Sorted, list.sort(reverse=True), which C5 tells from it
RECURSIVE SortedReverse(_)
SortedReverse(S) ==
    IF S = {} THEN <<>>
    ELSE LET m == CHOOSE x \in S : \A y \in S \ {x} : StrLess(y, x)
         IN  <<m>> \o SortedReverse(S \ {m})

\* list.sort() of a list of distinct str (the list is given by its elements)
RECURSIVE Sorted(_)
Sorted(S) ==
    IF S = {} THEN <<>>
    ELSE LET m == CHOOSE x \in S : \A y \in S \ {x} : StrLess(x, y)
         IN  <<m>> \o Sorted(S \ {m})

\* line.split(): the maximal runs of non-whitespace characters
RECURSIVE SplitFrom(_, _, _)
SplitFrom(s, cur, acc) ==
    IF s = <<>> THEN (IF cur = <<>> THEN acc ELSE Append(acc, cur))
    ELSE IF Head(s) \in Whitespace
         THEN SplitFrom(Tail(s), <<>>, IF cur = <<>> THEN acc ELSE Append(acc, cur))
         ELSE SplitFrom(Tail(s), Append(cur, Head(s)), acc)

split(line) == SplitFrom(line, <<>>, <<>>)

\* sub in s, for two str
InStr(sub, s) ==
    \E i \in 0..(Len(s) - Len(sub)) : SubSeq(s, i + 1, i + Len(sub)) = sub

\* the empty dict, d[k] = v and del d[k]
EmptyDict == [k \in {} |-> <<>>]
Put(d, k, v) == [x \in DOMAIN d \cup {k} |-> IF x = k THEN v ELSE d[x]]
Del(d, k) == [x \in DOMAIN d \ {k} |-> d[x]]

\* path.split('/'): the components between the slashes, empty ones kept
RECURSIVE SplitSlash(_, _, _)
SplitSlash(s, cur, acc) ==
    IF s = <<>> THEN Append(acc, cur)
    ELSE IF Head(s) = "/" THEN SplitSlash(Tail(s), <<>>, Append(acc, cur))
    ELSE SplitSlash(Tail(s), Append(cur, Head(s)), acc)

\* '/'.join(comps)
RECURSIVE JoinSlash(_)
JoinSlash(comps) ==
    IF comps = <<>> THEN <<>>
    ELSE IF Len(comps) = 1 THEN comps[1]
    ELSE comps[1] \o <<"/">> \o JoinSlash(Tail(comps))

\* the loop of posixpath.normpath over the components
RECURSIVE NormComps(_, _, _)
NormComps(comps, new_comps, initial_slashes) ==
    IF comps = <<>> THEN new_comps
    ELSE LET comp == Head(comps)
             dotdot == <<".", ".">>
         IN  IF comp = <<>> \/ comp = <<".">>
             THEN NormComps(Tail(comps), new_comps, initial_slashes)
             ELSE IF \/ comp # dotdot
                     \/ (initial_slashes = 0 /\ new_comps = <<>>)
                     \/ (new_comps # <<>> /\ new_comps[Len(new_comps)] = dotdot)
             THEN NormComps(Tail(comps), Append(new_comps, comp), initial_slashes)
             ELSE IF new_comps # <<>>
             THEN NormComps(Tail(comps), SubSeq(new_comps, 1, Len(new_comps) - 1),
                            initial_slashes)
             ELSE NormComps(Tail(comps), new_comps, initial_slashes)

\* os.path.normpath(path)
normpath(path) ==
    IF path = <<>> THEN <<".">>
    ELSE LET initial_slashes ==
                 IF Head(path) # "/" THEN 0
                 ELSE IF /\ SubSeq(path, 1, 2) = <<"/", "/">>
                         /\ SubSeq(path, 1, 3) # <<"/", "/", "/">>
                 THEN 2 ELSE 1
             joined == JoinSlash(NormComps(SplitSlash(path, <<>>, <<>>), <<>>,
                                           initial_slashes))
             res == [i \in 1..initial_slashes |-> "/"] \o joined
         IN  IF res = <<>> THEN <<".">> ELSE res

\* os.path.basename(p): what follows the last slash
RECURSIVE basename(_)
basename(p) ==
    IF \A i \in 1..Len(p) : p[i] # "/" THEN p
    ELSE basename(Tail(p))

(***************************************************************************)
(* The functions of the program.                                           *)
(***************************************************************************)

\* get_obj_file_names: line[2:-1] of every line of find, libkern.o left out
get_obj_file_names(find_out) ==
    LET names == [i \in 1..Len(find_out) |->
                      SubSeq(find_out[i], 3, Len(find_out[i]) - 1)]
    IN  SelectSeq(names, LAMBDA file_name : file_name # LibkernObj)

\* lines 53-55: item = line.split(), its first field popped when it has three
nm_item(line) ==
    LET item == split(line)
    IN  IF Len(item) = 3 THEN Tail(item) ELSE item

\* line 56 (and 73), sym_type, sym_name = item, raises ValueError unless
\* item has two fields
nm_unpacks(lines) == \A i \in 1..Len(lines) : Len(nm_item(lines[i])) = 2

\* lines 57 and 74: sym_type in "TDB"
sym_type_in_TDB(sym_type) == InStr(sym_type, TDB)

\* a variant of read_symbols_lines, symbols = {} at every file, which C9 tells
\* from it
read_symbols_lines_reset(lines, syms, filename) ==
    [ n \in { nm_item(lines[i])[2] :
                i \in { j \in 1..Len(lines) :
                          sym_type_in_TDB(nm_item(lines[j])[1]) } } |-> filename ]

\* read_symbols, lines 49-58: the lines of one nm output
RECURSIVE read_symbols_lines(_, _, _)
read_symbols_lines(lines, syms, filename) ==
    IF lines = <<>> THEN syms
    ELSE LET item == nm_item(Head(lines))
         IN  read_symbols_lines(Tail(lines),
                 IF sym_type_in_TDB(item[1]) THEN Put(syms, item[2], filename)
                                             ELSE syms,
                 filename)

\* read_symbols over a list of files whose nm outputs are nm
RECURSIVE read_symbols(_, _, _)
read_symbols(filenames, nm, syms) ==
    IF filenames = <<>> THEN syms
    ELSE read_symbols(Tail(filenames), nm,
                      read_symbols_lines(nm[Head(filenames)], syms, Head(filenames)))

\* read_kernel_symbols, lines 66-75
RECURSIVE read_kernel_symbols(_, _)
read_kernel_symbols(lines, syms) ==
    IF lines = <<>> THEN syms
    ELSE LET item == nm_item(Head(lines))
         IN  read_kernel_symbols(Tail(lines),
                 IF sym_type_in_TDB(item[1]) THEN syms \cup {item[2]} ELSE syms)

\* a variant of is_relocation, without item[0] != 'OFFSET', which C1 tells
\* from it
is_relocation_any_three(item) == item # <<>> /\ Len(item) = 3

\* line 91: item and len(item) == 3 and item[0] != 'OFFSET'
is_relocation(item) == item # <<>> /\ Len(item) = 3 /\ item[1] # OFFSET

\* eliminate_used_symbols, lines 84-94: the lines of one objdump output
RECURSIVE eliminate_lines(_, _)
eliminate_lines(lines, syms) ==
    IF lines = <<>> THEN syms
    ELSE LET item == split(Head(lines))
             sym_name == item[Len(item)]
         IN  eliminate_lines(Tail(lines),
                 IF is_relocation(item) /\ sym_name \in DOMAIN syms
                 THEN Del(syms, sym_name) ELSE syms)

\* eliminate_used_symbols over a list of files whose objdump outputs are reloc
RECURSIVE eliminate_used_symbols(_, _, _)
eliminate_used_symbols(filenames, reloc, syms) ==
    IF filenames = <<>> THEN syms
    ELSE eliminate_used_symbols(Tail(filenames), reloc,
                                eliminate_lines(reloc[Head(filenames)], syms))

\* `find sys_dir -name pattern` with pattern = prefix + '[csS]': the lines for
\* the files of the tree whose base name is prefix and one of c, s, S
find_name(dir, tree, prefix) ==
    { dir \o <<"/">> \o rel \o <<"\n">> :
        rel \in { r \in tree :
                    LET b == basename(r)
                    IN  /\ Len(b) = Len(prefix) + 1
                        /\ SubSeq(b, 1, Len(prefix)) = prefix
                        /\ b[Len(b)] \in {"c", "s", "S"} } }

\* a variant of pathlen_of, pathlen = len(sys_dir), which C8 tells from it
pathlen_whole(dir) == Len(dir)

\* line 103: pathlen = len(sys_dir) - 3
pathlen_of(dir) == Len(dir) - 3

\* find_source_file (the lines of find are taken as a set: only their number
\* and, when there is one, that line are used)
find_source_file(objfile_name, dir, tree) ==
    LET pathlen == pathlen_of(dir)
        name == basename(objfile_name)
        out == find_name(dir, tree, SubSeq(name, 1, Len(name) - 1))
        names == { SubSeq(line, pathlen + 1, Len(line) - 1) : line \in out }
    IN  IF Cardinality(out) = 1 THEN CHOOSE f \in names : TRUE
        ELSE objfile_name

\* a variant of keeps, file_name[:8] != 'lib/kern/', which C4 tells from it
keeps_slice8(keep_libkern, file_name) ==
    keep_libkern \/ SubSeq(file_name, 1, Min(8, Len(file_name))) # LibKernPrefix

\* line 119: keep_libkern or file_name[:9] != 'lib/kern/'
keeps(keep_libkern, file_name) ==
    keep_libkern \/ SubSeq(file_name, 1, Min(9, Len(file_name))) # LibKernPrefix

\* print_result, lines 117-121: the dict file_to_syms
group_symbols(syms, dir, keep_libkern, tree) ==
    LET kept == { s \in DOMAIN syms : keeps(keep_libkern, syms[s]) }
        attributed(s) == find_source_file(syms[s], dir, tree)
    IN  [ f \in { attributed(s) : s \in kept } |->
            { s \in kept : attributed(s) = f } ]

\* lines 127-132: the sorted list of the files whose examined symbol,
\* symbols[0], is in the kernel
files_to_print(groups, kernel, first) ==
    Sorted({ f \in DOMAIN groups : first[f] \in kernel })

\* lines 136-142: the block of one file, a blank line after it unless it is
\* the last file's
print_block(groups, file_name, last_name) ==
    LET symbol_names == Sorted(groups[file_name])
    IN  <<file_name>>
        \o [ i \in 1..Len(symbol_names) |-> Indent \o symbol_names[i] ]
        \o (IF file_name # last_name THEN << <<>> >> ELSE <<>>)

\* lines 135-142: everything printed
RECURSIVE print_blocks(_, _, _)
print_blocks(groups, names, last_name) ==
    IF names = <<>> THEN <<>>
    ELSE print_block(groups, Head(names), last_name)
         \o print_blocks(groups, Tail(names), last_name)

print_files(groups, names) ==
    IF names = <<>> THEN <<>>
    ELSE print_blocks(groups, names, names[Len(names)])

(***************************************************************************)
(* The environment: what the external tools may print.                     *)
(***************************************************************************)
SeqUpTo(S, n) == UNION { [1..k -> S] : k \in 0..n }

NmOutputs == SeqUpTo(NmLines, MaxNmLines)
RelocOutputs == SeqUpTo(RelocLines, MaxRelocLines)

\* the lists of at most n distinct files of F
Orders(F, n) ==
    { o \in SeqUpTo(F, n) : \A i, j \in 1..Len(o) : i # j => o[i] # o[j] }

\* the orders of all the files of F
AllOrders(F) == { o \in Orders(F, Cardinality(F)) : Len(o) = Cardinality(F) }

\* the output of `find . -name *.o` listing the files o
find_lines(o) == [i \in 1..Len(o) |-> <<".", "/">> \o o[i] \o <<"\n">>]

\* what nm may print for the kernel
KernelOutputs ==
    {<<>>, <<NmTf>>, <<NmDVALUE, NmBfo>>, <<NmTf, NmDVALUE>>, <<NmArchive>>}

\* what find may print: any list of object files, or, when the build
\* directory is given, its object files in any order
FindOutputs ==
    IF build_fixed THEN { find_lines(o) : o \in AllOrders(DOMAIN obj_nm) }
    ELSE { find_lines(o) : o \in Orders(ObjUniverse, MaxObjFiles) }

\* what nm and objdump -r may print for an object file, and nm for the kernel
NmFor(filename) == IF build_fixed THEN {obj_nm[filename]} ELSE NmOutputs
RelocFor(filename) == IF build_fixed THEN {obj_reloc[filename]} ELSE RelocOutputs
KernelNmOutputs == IF build_fixed THEN {kernel_nm} ELSE KernelOutputs

\* the build directories of SpecBuild
BuildNmOutputs == {<<NmTf>>, <<NmBfo, NmDVALUE>>, <<NmUf, NmTDf>>, <<NmArchive>>}
BuildRelocOutputs == {<<RelBlank, RelHeader>>, <<RelF>>}
BuildKernelOutputs == {<<NmTf>>, <<NmTf, NmDVALUE>>, <<NmArchive>>}

(***************************************************************************)
(* What the tools' outputs say, stated from the output formats (§6 of the  *)
(* specification) and not from the program: the names an nm output defines *)
(* with classifier T, D or B, and the targets of the relocation records of *)
(* an objdump output.                                                      *)
(***************************************************************************)
DefinedTDB(lines) ==
    { nm_item(lines[i])[2] :
        i \in { j \in 1..Len(lines) :
                  /\ Len(nm_item(lines[j])) = 2
                  /\ nm_item(lines[j])[1] \in {<<"T">>, <<"D">>, <<"B">>} } }

RelocationTargets(lines) ==
    { split(lines[i])[3] :
        i \in { j \in 1..Len(lines) :
                  /\ Len(split(lines[j])) = 3
                  /\ split(lines[j])[1] # OFFSET } }

(***************************************************************************)
(* The state machine.                                                      *)
(***************************************************************************)
InitProgram ==
    /\ pc = "main"
    /\ args_k = FALSE
    /\ sys_dir = <<>>
    /\ src_tree = {}
    /\ file_names = <<>>
    /\ idx = 1
    /\ symbols = EmptyDict
    /\ file_to_syms = EmptyDict
    /\ kernel_symbols = {}
    /\ examined = EmptyDict
    /\ report = <<>>
    /\ U0 = EmptyDict
    /\ R = {}
    /\ nonzero_exit = FALSE

\* any build directory: each tool's output is chosen as the tool is invoked
Init ==
    /\ InitProgram
    /\ build_fixed = FALSE
    /\ obj_nm = EmptyDict
    /\ obj_reloc = EmptyDict
    /\ kernel_nm = <<>>
    /\ exit_codes = {0}

\* a given build directory, whose tools may fail
InitBuild ==
    /\ InitProgram
    /\ build_fixed = TRUE
    /\ \E F \in SUBSET (ObjUniverse \ {LibkernObj}) :
          /\ Cardinality(F) \in 1..MaxObjFiles
          /\ obj_nm \in [F -> BuildNmOutputs]
          /\ obj_reloc \in [F -> BuildRelocOutputs]
    /\ kernel_nm \in BuildKernelOutputs
    /\ exit_codes = {0, 1}

env == <<src_tree, build_fixed, obj_nm, obj_reloc, kernel_nm, exit_codes>>
build == <<build_fixed, obj_nm, obj_reloc, kernel_nm, exit_codes>>
results == <<file_to_syms, kernel_symbols, examined, report>>
history == <<U0, R, nonzero_exit>>

\* main, lines 146-157, when sys_dir exists
main_args ==
    /\ pc = "main"
    /\ \E k \in BOOLEAN, s \in SrcDirArgs :
          LET src_dir == IF s # <<>> THEN s ELSE DefaultSrcDir
          IN  /\ args_k' = k
              /\ sys_dir' = normpath(src_dir \o SlashSys)
    /\ pc' = "get_obj_file_names"
    /\ UNCHANGED <<env, file_names, idx, symbols, results, history>>

\* main, lines 158-160: sys_dir does not exist
main_no_sys_dir ==
    /\ pc = "main"
    /\ pc' = "exit1"
    /\ UNCHANGED <<args_k, sys_dir, env, file_names, idx, symbols, results, history>>

\* line 162: file_names = get_obj_file_names()
call_get_obj_file_names ==
    /\ pc = "get_obj_file_names"
    /\ \E find_out \in FindOutputs, status \in exit_codes :
          /\ file_names' = get_obj_file_names(find_out)
          /\ nonzero_exit' = (nonzero_exit \/ status # 0)
    /\ idx' = 1
    /\ pc' = "read_symbols"
    /\ UNCHANGED <<args_k, sys_dir, env, symbols, results, U0, R>>

\* read_symbols, lines 47-58: one file
read_symbols_file ==
    /\ pc = "read_symbols"
    /\ idx <= Len(file_names)
    /\ LET filename == file_names[idx]
       IN  \E out \in NmFor(filename), status \in exit_codes :
              /\ nm_unpacks(out)
              /\ symbols' = read_symbols_lines(out, symbols, filename)
              /\ nonzero_exit' = (nonzero_exit \/ status # 0)
    /\ idx' = idx + 1
    /\ UNCHANGED <<pc, args_k, sys_dir, env, file_names, results, U0, R>>

\* read_symbols, line 56: a line that does not unpack raises ValueError
read_symbols_ValueError ==
    /\ pc = "read_symbols"
    /\ idx <= Len(file_names)
    /\ (\E out \in NmFor(file_names[idx]) : ~nm_unpacks(out)) = TRUE
    /\ pc' = "error"
    /\ UNCHANGED <<args_k, sys_dir, env, file_names, idx, symbols, results, history>>

\* read_symbols, line 59, and line 163
read_symbols_return ==
    /\ pc = "read_symbols"
    /\ idx > Len(file_names)
    /\ U0' = symbols
    /\ idx' = 1
    /\ pc' = "eliminate_used_symbols"
    /\ UNCHANGED <<args_k, sys_dir, env, file_names, symbols, results, R, nonzero_exit>>

\* eliminate_used_symbols, lines 81-94: one file
eliminate_file ==
    /\ pc = "eliminate_used_symbols"
    /\ idx <= Len(file_names)
    /\ \E out \in RelocFor(file_names[idx]), status \in exit_codes :
          /\ symbols' = eliminate_lines(out, symbols)
          /\ R' = R \cup RelocationTargets(out)
          /\ nonzero_exit' = (nonzero_exit \/ status # 0)
    /\ idx' = idx + 1
    /\ UNCHANGED <<pc, args_k, sys_dir, env, file_names, results, U0>>

\* eliminate_used_symbols returns (line 164)
eliminate_return ==
    /\ pc = "eliminate_used_symbols"
    /\ idx > Len(file_names)
    /\ pc' = "print_result"
    /\ UNCHANGED <<args_k, sys_dir, env, file_names, idx, symbols, results, history>>

\* print_result, lines 116-121: file_to_syms, with find run for every symbol
\* that is kept
print_result_group ==
    /\ pc = "print_result"
    /\ \E tree \in SrcTrees, status \in exit_codes :
          /\ src_tree' = tree
          /\ file_to_syms' = group_symbols(symbols, sys_dir, args_k, tree)
          /\ nonzero_exit' = (nonzero_exit \/ (status # 0 /\ DOMAIN file_to_syms' # {}))
    /\ pc' = "print_result_kernel"
    /\ UNCHANGED <<args_k, sys_dir, build, file_names, idx, symbols,
                   kernel_symbols, examined, report, U0, R>>

\* print_result, lines 126-142: the kernel's symbols, the files to print and
\* the report.  list(set)[0] is whichever element the set's hash order puts
\* first: any element of the group.
print_result_print ==
    /\ pc = "print_result_kernel"
    /\ \E out \in KernelNmOutputs, status \in exit_codes :
          /\ nm_unpacks(out)
          /\ kernel_symbols' = read_kernel_symbols(out, {})
          /\ nonzero_exit' = (nonzero_exit \/ status # 0)
    /\ \E first \in [DOMAIN file_to_syms -> DOMAIN symbols] :
          /\ \A f \in DOMAIN file_to_syms : first[f] \in file_to_syms[f]
          /\ examined' = first
          /\ report' = print_files(file_to_syms,
                                   files_to_print(file_to_syms, kernel_symbols', first))
    /\ pc' = "done"
    /\ UNCHANGED <<args_k, sys_dir, env, file_names, idx, symbols, file_to_syms, U0, R>>

\* read_kernel_symbols, line 73: a line that does not unpack raises ValueError
print_result_ValueError ==
    /\ pc = "print_result_kernel"
    /\ (\E out \in KernelNmOutputs : ~nm_unpacks(out)) = TRUE
    /\ pc' = "error"
    /\ UNCHANGED <<args_k, sys_dir, env, file_names, idx, symbols, results, history>>

\* subprocess.Popen raises OSError when the tool cannot be started
Popen_OSError ==
    /\ \/ pc \in {"get_obj_file_names", "print_result_kernel"}
       \/ pc \in {"read_symbols", "eliminate_used_symbols"} /\ idx <= Len(file_names)
       \/ pc = "print_result" /\ \E s \in DOMAIN symbols : keeps(args_k, symbols[s])
    /\ pc' = "error"
    /\ UNCHANGED <<args_k, sys_dir, env, file_names, idx, symbols, results, history>>

Next ==
    \/ main_args
    \/ main_no_sys_dir
    \/ call_get_obj_file_names
    \/ read_symbols_file
    \/ read_symbols_ValueError
    \/ read_symbols_return
    \/ eliminate_file
    \/ eliminate_return
    \/ print_result_group
    \/ print_result_print
    \/ print_result_ValueError
    \/ Popen_OSError

Spec == Init /\ [][Next]_vars

SpecBuild == InitBuild /\ [][Next]_vars

(***************************************************************************)
(* Reading a report, and the runs of the pipeline over a given build       *)
(* directory, for the properties below.                                    *)
(***************************************************************************)
HasPrefix(p, s) == Len(s) >= Len(p) /\ \A i \in 1..Len(p) : s[i] = p[i]

IsSymbolLine(l) == HasPrefix(Indent, l)
IsHeader(l) == l # <<>> /\ ~IsSymbolLine(l)
SymbolOf(l) == SubSeq(l, 3, Len(l))
Headers == { i \in 1..Len(report) : IsHeader(report[i]) }
SymbolLines == { i \in 1..Len(report) : IsSymbolLine(report[i]) }
Printed(f) == \E i \in 1..Len(report) : report[i] = f
After(pcs) == pc \in pcs

\* the symbols a run over the object files in the order o is left with
RunSymbols(o) == eliminate_used_symbols(o, obj_reloc, read_symbols(o, obj_nm, EmptyDict))
\* its file groups
RunGroups(o) == group_symbols(RunSymbols(o), sys_dir, args_k, src_tree)
\* the symbols line 130 may examine: one of each group
Examinable(groups) ==
    { first \in [DOMAIN groups -> UNION { groups[f] : f \in DOMAIN groups }] :
        \A f \in DOMAIN groups : first[f] \in groups[f] }
\* its report, when line 130 examines first
RunReport(o, first) ==
    print_files(RunGroups(o),
                files_to_print(RunGroups(o), read_kernel_symbols(kernel_nm, {}), first))

(***************************************************************************)
(* C1  Monotonic elimination: once eliminate_used_symbols has processed    *)
(* every file, the keys of the universe are exactly the keys read_symbols  *)
(* returned (U0) minus the targets R of the three-field relocation lines   *)
(* whose first field is not OFFSET.                                        *)
(***************************************************************************)
C1_MonotonicElimination ==
    (\/ After({"print_result", "print_result_kernel", "done"})
     \/ (pc = "eliminate_used_symbols" /\ idx > Len(file_names)))
    => DOMAIN symbols = DOMAIN U0 \ R

C1_Witness ==
    /\ pc = "print_result"
    /\ R \cap DOMAIN U0 # {}
    /\ DOMAIN symbols # {}
    /\ Len(file_names) = 2

(***************************************************************************)
(* C2  Final-kernel gating, as claimed: a file group is printed if and     *)
(* only if at least one of its symbols is in the kernel's symbol set.      *)
(***************************************************************************)
C2_FinalKernelGating ==
    pc = "done" =>
        \A f \in DOMAIN file_to_syms :
            Printed(f) <=> (file_to_syms[f] \cap kernel_symbols # {})

(***************************************************************************)
(* C3  Classifier filtering, as claimed: only nm lines whose classifier is *)
(* exactly T, D or B add a name to the universe or to the kernel's set.    *)
(***************************************************************************)
C3_ClassifierFiltering ==
    /\ DOMAIN symbols \subseteq UNION { DefinedTDB(obj_nm[f]) : f \in DOMAIN obj_nm }
    /\ kernel_symbols \subseteq DefinedTDB(kernel_nm)

(***************************************************************************)
(* C4  Exclusion default: without -k no block header of the report begins  *)
(* with lib/kern/ and no printed symbol is owned by an object file under   *)
(* lib/kern/; with -k the symbols of such object files are all grouped.    *)
(***************************************************************************)
C4_ExclusionDefault ==
    pc = "done" =>
        /\ ~args_k =>
              /\ \A i \in Headers : ~HasPrefix(LibKernPrefix, report[i])
              /\ \A i \in SymbolLines :
                    ~HasPrefix(LibKernPrefix, symbols[SymbolOf(report[i])])
        /\ args_k =>
              \A s \in DOMAIN symbols :
                  HasPrefix(LibKernPrefix, symbols[s]) =>
                      \E f \in DOMAIN file_to_syms : s \in file_to_syms[f]

C4_Witness ==
    /\ pc = "done"
    /\ ~args_k
    /\ \E s \in DOMAIN symbols : HasPrefix(LibKernPrefix, symbols[s])
    /\ SymbolLines # {}

(***************************************************************************)
(* C5  Sort order: the block headers of a report increase strictly, the    *)
(* symbols of one block increase strictly, and exactly one blank line      *)
(* stands between two blocks, none after the last.                         *)
(***************************************************************************)
C5_SortOrder ==
    pc = "done" =>
        /\ \A i, j \in Headers : i < j => StrLess(report[i], report[j])
        /\ \A i, j \in SymbolLines :
              (i < j /\ \A h \in Headers : ~(i < h /\ h < j))
                  => StrLess(SymbolOf(report[i]), SymbolOf(report[j]))
        /\ \A i \in 1..Len(report) :
              /\ report[i] = <<>> =>
                    (1 < i /\ i < Len(report) /\ (i - 1) \in SymbolLines /\ (i + 1) \in Headers)
              /\ (i \in Headers /\ i > 1) => report[i - 1] = <<>>
        /\ report # <<>> => 1 \in Headers

C5_Witness ==
    /\ pc = "done"
    /\ Cardinality(Headers) >= 2
    /\ \E i \in SymbolLines : (i + 1) \in SymbolLines

(***************************************************************************)
(* C6  Determinism, as claimed: every run over the same inputs prints the  *)
(* same report, whichever symbol of a group line 130 examines.             *)
(***************************************************************************)
C6_Determinism ==
    pc = "done" =>
        \A first \in Examinable(RunGroups(file_names)) :
            RunReport(file_names, first) = report

(***************************************************************************)
(* C7  External-tool failure is fatal, as claimed: once a tool has exited  *)
(* with a non-zero status the run does not go on to print a report.        *)
(***************************************************************************)
C7_ToolFailureIsFatal == nonzero_exit => pc # "done"

(***************************************************************************)
(* C8  Source attribution: a kept symbol is grouped under the one source   *)
(* file <stem>.[csS] found below sys_dir, named from the parent of sys_dir *)
(* (sys/...), and under its object file when none or several are found.    *)
(***************************************************************************)
SearchMatches(o) ==
    { r \in src_tree :
        \E c \in {"c", "s", "S"} :
            basename(r) = SubSeq(basename(o), 1, Len(basename(o)) - 2) \o <<".", c>> }

Attribution(o) ==
    IF Cardinality(SearchMatches(o)) = 1
    THEN <<"s", "y", "s", "/">> \o (CHOOSE r \in SearchMatches(o) : TRUE)
    ELSE o

C8_SourceAttribution ==
    After({"print_result_kernel", "done"}) =>
        /\ \A s \in DOMAIN symbols :
              (args_k \/ ~HasPrefix(LibKernPrefix, symbols[s])) =>
                  /\ Attribution(symbols[s]) \in DOMAIN file_to_syms
                  /\ s \in file_to_syms[Attribution(symbols[s])]
        /\ \A f \in DOMAIN file_to_syms : \A s \in file_to_syms[f] :
              f = Attribution(symbols[s])

C8_Witness ==
    /\ pc = "done"
    /\ \E s \in DOMAIN symbols :
          Cardinality(SearchMatches(symbols[s])) = 1 /\ Printed(Attribution(symbols[s]))
    /\ \E s \in DOMAIN symbols :
          Cardinality(SearchMatches(symbols[s])) > 1 /\ Printed(symbols[s])

(***************************************************************************)
(* C9  Enumeration-order independence, as claimed: every order of the same *)
(* object files gives the same file groups and the same report (line 130   *)
(* examining the same symbols).                                            *)
(***************************************************************************)
SameForEveryOrder ==
    \A o \in AllOrders(DOMAIN obj_nm) :
        /\ RunGroups(o) = file_to_syms
        /\ RunReport(o, examined) = report

C9_OrderIndependence == pc = "done" => SameForEveryOrder

(***************************************************************************)
(* C9, amended: the same holds when no symbol name is recorded by          *)
(* read_symbols for two different object files.                            *)
(***************************************************************************)
Recorded(f) == DOMAIN read_symbols_lines(obj_nm[f], EmptyDict, f)

NoDuplicateDefinitions ==
    \A f, g \in DOMAIN obj_nm : f # g => Recorded(f) \cap Recorded(g) = {}

C9_OrderIndependenceWithoutDuplicates ==
    (pc = "done" /\ NoDuplicateDefinitions) => SameForEveryOrder

C9_Witness ==
    /\ pc = "done"
    /\ NoDuplicateDefinitions
    /\ Len(file_names) = 2
    /\ \A f \in DOMAIN obj_nm : \E s \in DOMAIN U0 : U0[s] = f
    /\ DOMAIN symbols # DOMAIN U0
    /\ report # <<>>

(***************************************************************************)
(* C10  SymbolUniverse invariant, as claimed: from the end of read_symbols *)
(* on, every name of the mapping maps to the last object file, in          *)
(* processing order, whose table defines it with classifier T, D or B.     *)
(***************************************************************************)
Definers(n) == { i \in 1..Len(file_names) : n \in DefinedTDB(obj_nm[file_names[i]]) }

C10_LastDefinerInvariant ==
    After({"eliminate_used_symbols", "print_result", "print_result_kernel", "done"}) =>
        \A n \in DOMAIN symbols :
            /\ Definers(n) # {}
            /\ symbols[n] = file_names[CHOOSE i \in Definers(n) : \A j \in Definers(n) : j <= i]

====
